---- MODULE Spec2Model ----
(***************************************************************************)
(* AzureScanner (dragoneye/cloud_scanner/azure/azure_scanner.py): the scan *)
(* of one subscription.  scan() lists the resource groups, partitions the  *)
(* command list into commands without and with Parameters, runs the two    *)
(* task lists one after the other on a thread pool, and prints a summary.  *)
(*                                                                         *)
(* Text (URLs, ids) is a sequence of tokens; a token is a literal or a     *)
(* '{name}' placeholder, so that str.replace and the substring test        *)
(* '/{resourceGroupName}/' in _url are computed on the text itself.        *)
(***************************************************************************)
EXTENDS Integers, Sequences, FiniteSets, TLC

----------------------------------------------------------------------------
(* Bounds of the model *)

\* attempt cap of the request's backoff policy
MaxTries == 2

\* ThreadPoolExecutor workers, execute_parallel_functions_in_threads(deque_tasks, 20)
max_workers == 20

----------------------------------------------------------------------------
(* Text *)

Lit(s) == [ph |-> FALSE, s |-> s]
\* '{{{0}}}'.format(name)
Ph(name) == [ph |-> TRUE, s |-> name]
Slash == Lit("/")

\* str.replace(old, new) with old one placeholder token: every occurrence
Replace(text, name, value) ==
  [i \in 1..Len(text) |-> IF text[i] = Ph(name) THEN Lit(value) ELSE text[i]]

\* '/{resourceGroupName}/' in _url
HasResourceGroupSegment(_url) ==
  \E i \in 1..(Len(_url) - 2) :
     /\ _url[i] = Slash
     /\ _url[i + 1] = Ph("resourceGroupName")
     /\ _url[i + 2] = Slash

RECURSIVE Flatten(_)
Flatten(seqs) ==
  IF seqs = << >> THEN << >> ELSE Head(seqs) \o Flatten(Tail(seqs))

----------------------------------------------------------------------------
(* Inputs: the subscription, the command list, the responses of the API *)

subscription_id == "s1"

\* f'https://management.azure.com/subscriptions/{subscription_id}/resourcegroups?api-version=2020-09-01'
ResourceGroupsUrl ==
  << Lit("subscriptions"), Slash, Lit(subscription_id), Slash, Lit("resourcegroups") >>

ResourceGroupsFile == "resource-groups"

\* commands of the yaml command list
CmdA ==
  [Name |-> "a",
   Request |-> << Lit("subscriptions"), Slash, Ph("subscriptionId"), Slash, Lit("a") >>]
CmdB ==
  [Name |-> "b",
   Request |-> << Lit("subscriptions"), Slash, Ph("subscriptionId"), Slash, Lit("b") >>]
CmdV ==
  [Name |-> "v",
   Request |-> << Lit("subscriptions"), Slash, Ph("subscriptionId"), Slash,
                  Lit("resourceGroups"), Slash, Ph("resourceGroupName"), Slash, Lit("v") >>]
CmdD ==
  [Name |-> "d",
   Request |-> << Lit("subscriptions"), Slash, Ph("subscriptionId"), Slash,
                  Lit("a"), Slash, Ph("aName"), Slash, Lit("d") >>,
   Parameters |-> << [Name |-> << "aName" >>, Value |-> [file |-> "a", path |-> << "name" >>]] >>]
CmdE ==
  [Name |-> "e",
   Request |-> << Lit("subscriptions"), Slash, Ph("subscriptionId"), Slash,
                  Lit("d"), Slash, Ph("dName"), Slash, Lit("e") >>,
   Parameters |-> << [Name |-> << "dName" >>, Value |-> [file |-> "d", path |-> << "name" >>]] >>]
CmdRG ==
  [Name |-> ResourceGroupsFile,
   Request |-> << Lit("subscriptions"), Slash, Ph("subscriptionId"), Slash, Lit("rgs") >>]

\* load_yaml(settings.commands_path): Name values are unique in a list
CommandList(k) ==
  CASE k = 1 -> << CmdD, CmdA >>
    [] k = 2 -> << CmdD, CmdE >>
    [] k = 3 -> << CmdRG, CmdV >>
    [] OTHER -> << CmdA, CmdB >>

FileNames == { ResourceGroupsFile, "a", "b", "v", "d", "e" }

\* items of the API's answers
Item1 ==
  [name |-> "n1", loc |-> "l1",
   id |-> << Lit("subscriptions"), Slash, Lit("s1"), Slash, Lit("resourceGroups"),
             Slash, Lit("n1"), Slash, Lit("x") >>]
Item2 == [name |-> "n2", loc |-> "l2"]
Item3 == [name |-> "n3", loc |-> "l3", id |-> << Lit("subscriptions"), Slash, Lit("s1") >>]

ListBody == [value |-> << Item1, Item2 >>]
ObjectBody == Item3
ErrorBody == [error |-> [code |-> "NotFound", message |-> "not found"]]
\* a body that holds no error object (a gateway's answer)
PlainBody == [html |-> "bad gateway"]

Response(status_code, body) == [status_code |-> status_code, body |-> body]

----------------------------------------------------------------------------
(* The account data directory: one result file per name *)

AbsentFile == [st |-> "absent", value |-> << >>, urls |-> << >>]

\* what a scan that ran earlier on the directory left behind
EarlierFile ==
  [st |-> "complete", value |-> << Item2 >>,
   urls |-> << << Lit("subscriptions"), Slash, Lit(subscription_id), Slash, Lit("earlier") >> >>]

\* what an earlier scan left of a command that resolved to no URL
EmptyResultFile == [st |-> "complete", value |-> << >>, urls |-> << >>]

\* the files of the earlier scan: d.json is the one of a command without URLs
EarlierContent(f) == IF f = "d" THEN EmptyResultFile ELSE EarlierFile

\* os.path.join(account_data_dir, filename + '.json'): the file's key in the directory
_get_result_file_path(filename) == filename

\* as isfile, the file of the listing not taken for a command's result
isfile_but_listing(dir, output_file) ==
  output_file # ResourceGroupsFile /\ dir[output_file].st # "absent"

\* as isfile, the check for an earlier result left out
isfile_unchecked(dir, output_file) == FALSE

\* os.path.isfile(output_file)
isfile(dir, output_file) == dir[output_file].st # "absent"

\* get_dynamic_values_from_files: the file of the value source does not parse
\* while it is created but not yet written to its end
ReadRaises(value_source, dir) == dir[value_source.file].st \in { "empty", "partial" }

\* get_dynamic_values_from_files('<file>.json|<path>', account_data_dir): one tuple of
\* values per item of the file, no tuple when the file is absent
get_dynamic_values_from_files(value_source, dir) ==
  LET file == dir[value_source.file] IN
  IF file.st # "complete"
    THEN << >>
    ELSE [k \in 1..Len(file.value) |->
            [j \in 1..Len(value_source.path) |-> file.value[k][value_source.path[j]]]]

----------------------------------------------------------------------------
(* _build_urls *)

\* as ZipReplace, only the first name of the parameter replaced
ZipReplaceFirst(modified_url, param_names, param_real_value) ==
  IF param_names = << >> \/ param_real_value = << >>
    THEN modified_url
    ELSE Replace(modified_url, Head(param_names), Head(param_real_value))

\* for param, value in zip(names, values): modified_url = modified_url.replace(...)
RECURSIVE ZipReplace(_, _, _)
ZipReplace(modified_url, param_names, param_real_value) ==
  IF param_names = << >> \/ param_real_value = << >>
    THEN modified_url
    ELSE ZipReplace(Replace(modified_url, Head(param_names), Head(param_real_value)),
                    Tail(param_names), Tail(param_real_value))

\* the URLs one parameter adds to urls_with_params
ParameterUrls(_url, parameter, dir) ==
  LET param_real_values == get_dynamic_values_from_files(parameter.Value, dir) IN
  [k \in 1..Len(param_real_values) |->
     ZipReplace(_url, parameter.Name, param_real_values[k])]

UrlsWithParams(_url, parameters, dir) ==
  IF parameters # << >>
    THEN Flatten([p \in 1..Len(parameters) |-> ParameterUrls(_url, parameters[p], dir)])
    ELSE << _url >>

\* the second loop of _build_urls, for one URL
ExpandResourceGroups(_url, resource_groups) ==
  IF HasResourceGroupSegment(_url)
    THEN [g \in 1..Len(resource_groups) |->
            Replace(_url, "resourceGroupName", resource_groups[g])]
    ELSE << _url >>

\* as _build_urls, the template itself returned where nothing resolves
_build_urls_or_template(_url, parameters, dir, resource_groups) ==
  LET urls_with_params == UrlsWithParams(_url, parameters, dir)
      urls == Flatten([i \in 1..Len(urls_with_params) |->
                         ExpandResourceGroups(urls_with_params[i], resource_groups)])
  IN  IF urls = << >> THEN << _url >> ELSE urls

_build_urls(_url, parameters, dir, resource_groups) ==
  LET urls_with_params == UrlsWithParams(_url, parameters, dir) IN
  Flatten([i \in 1..Len(urls_with_params) |->
             ExpandResourceGroups(urls_with_params[i], resource_groups)])

\* a file named by a parameter is being written: the read raises
BuildUrlsRaises(parameters, dir) ==
  \E p \in 1..Len(parameters) : ReadRaises(parameters[p].Value, dir)

----------------------------------------------------------------------------
(* _concat_results, _add_resource_group *)

\* a merge that keeps only the items of the last answer
_concat_results_last(value, response) ==
  IF response.status_code = 200
    THEN IF "value" \in DOMAIN response.body
           THEN response.body.value
           ELSE << response.body >>
    ELSE value

_concat_results(value, response) ==
  IF response.status_code = 200
    THEN IF "value" \in DOMAIN response.body
           THEN value \o response.body.value
           ELSE Append(value, response.body)
    ELSE value

\* item_id.split('resourceGroups/'): the place of the first marker, 0 if there is none
MarkerAt(item_id) ==
  LET at == { i \in 1..(Len(item_id) - 1) :
                item_id[i] = Lit("resourceGroups") /\ item_id[i + 1] = Slash }
  IN  IF at = { } THEN 0 ELSE CHOOSE i \in at : \A j \in at : i <= j

\* .split('/')[0]: the text up to the next '/'
RECURSIVE UpToSlash(_)
UpToSlash(text) ==
  IF text = << >> \/ Head(text) = Slash
    THEN << >>
    ELSE << Head(text) >> \o UpToSlash(Tail(text))

\* an item left as it came
TagItemNone(item) == item

TagItem(item) ==
  IF "id" \in DOMAIN item /\ MarkerAt(item.id) # 0
    THEN ("resourceGroup" :>
            UpToSlash(SubSeq(item.id, MarkerAt(item.id) + 2, Len(item.id)))) @@ item
    ELSE item

_add_resource_group(value) == [k \in 1..Len(value) |-> TagItem(value[k])]

----------------------------------------------------------------------------
(* invoke_get_request: the backoff policy around one GET *)

Retryable(response) == response.status_code >= 500

\* what one attempt can answer: the listing of the resource groups is a list
Answers(url) ==
  { Response(200, ListBody), Response(404, ErrorBody), Response(503, PlainBody) }
  \cup (IF url = ResourceGroupsUrl
          THEN { }
          ELSE { Response(200, ObjectBody), Response(503, ErrorBody) })

\* the attempt is retried: a retryable answer, and attempts are left
Backoff(response, tries) == Retryable(response) /\ tries + 1 < MaxTries

----------------------------------------------------------------------------
(* State *)

VARIABLES
  scan_commands,    \* the command list of the scan
  dir,              \* account_data_dir: file name -> [st, value, urls]
  summary,          \* self.summary, the queue of call summaries
  scan_pc,          \* where scan() is: "listing", "running", "returned", "raised"
  resource_groups,  \* what _get_resource_groups returned
  tasks,            \* the ThreadedFunctionData of each command
  deque_tasks,      \* the task lists not yet taken from the deque
  phase_tasks,      \* the task list the thread pool is running
  th,               \* per thread: pc and the locals of _get_results
  invocations,      \* log: every request that got its final answer
  writes,           \* log: file name -> how often it was opened for writing
  reads,            \* log: the state of each file a parameter was read from
  earlier,          \* the names of the files the directory held when the scan began
  report,           \* what _print_summary logged: the calls and the errors it counted
  fn                \* a single function applied to inputs: the inputs and the result

vars ==
  << scan_commands, dir, summary, scan_pc, resource_groups, tasks, deque_tasks,
     phase_tasks, th, invocations, writes, reads, earlier, report, fn >>

\* thread 0 is the thread of scan(); thread i runs the task of scan_commands[i]
Commands == 1..Len(scan_commands)
Threads == { 0 } \cup Commands

Terminal == { "done", "skipped", "failed" }

IdleThread == [pc |-> "idle", urls |-> << >>, idx |-> 1, tries |-> 0, value |-> << >>]

NoReport == [printed |-> FALSE, total |-> 0, errors |-> 0]
NoFunction == [op |-> "none"]

\* the directories a scan may start from: init_directory keeps what is there
\* unless settings.clean is set
Scenarios ==
  { [k |-> 1, earlier |-> { }], [k |-> 1, earlier |-> { "a" }],
    [k |-> 2, earlier |-> { "a" }], [k |-> 2, earlier |-> { "a", "d" }],
    [k |-> 3, earlier |-> { }], [k |-> 3, earlier |-> { ResourceGroupsFile }],
    [k |-> 4, earlier |-> { }] }

Init ==
  /\ \E sc \in Scenarios :
       /\ scan_commands = CommandList(sc.k)
       /\ dir = [f \in FileNames |-> IF f \in sc.earlier THEN EarlierContent(f) ELSE AbsentFile]
       /\ earlier = sc.earlier
  /\ report = NoReport
  /\ fn = NoFunction
  /\ summary = << >>
  /\ scan_pc = "listing"
  /\ resource_groups = << >>
  /\ tasks = << >>
  /\ deque_tasks = << >>
  /\ phase_tasks = << >>
  /\ th = [t \in Threads |-> IF t = 0 THEN [IdleThread EXCEPT !.pc = "build"] ELSE IdleThread]
  /\ invocations = << >>
  /\ writes = [f \in FileNames |-> 0]
  /\ reads = { }

----------------------------------------------------------------------------
(* What a thread works on *)

\* request.replace('{subscriptionId}', subscription_id)
base_url(scan_command) == Replace(scan_command.Request, "subscriptionId", subscription_id)

\* scan_command.get('Parameters', [])
ParametersOf(scan_command) ==
  IF "Parameters" \in DOMAIN scan_command THEN scan_command.Parameters ELSE << >>

\* the arguments of the thread's _get_results call
UrlOf(t) == IF t = 0 THEN ResourceGroupsUrl ELSE base_url(tasks[t].scan_command)
ParamsOf(t) == IF t = 0 THEN << >> ELSE ParametersOf(tasks[t].scan_command)
GroupsOf(t) == IF t = 0 THEN << >> ELSE tasks[t].resource_groups

\* the thread's output_file
OutputFile(t) ==
  IF t = 0 THEN _get_result_file_path(ResourceGroupsFile)
           ELSE _get_result_file_path(tasks[t].scan_command.Name)

\* an exception in thread t: _execute_scan_commands catches it and logs it (the
\* command's task ends); scan() has no handler around _get_resource_groups
Raise(t) ==
  /\ th' = [th EXCEPT ![t] = [IdleThread EXCEPT !.pc = "failed"]]
  /\ scan_pc' = IF t = 0 THEN "raised" ELSE scan_pc

----------------------------------------------------------------------------
(* _get_results: build the URLs, then invoke them one after the other *)

BuildUrls(t) ==
  /\ th[t].pc = "build"
  /\ reads' = reads \cup
       { [t |-> t, file |-> ParamsOf(t)[p].Value.file, st |-> dir[ParamsOf(t)[p].Value.file].st] :
           p \in 1..Len(ParamsOf(t)) }
  /\ IF BuildUrlsRaises(ParamsOf(t), dir)
       THEN Raise(t)
       ELSE /\ th' = [th EXCEPT ![t] =
                 LET urls == _build_urls(UrlOf(t), ParamsOf(t), dir, GroupsOf(t)) IN
                 [@ EXCEPT !.urls = urls, !.idx = 1, !.tries = 0, !.value = << >>,
                           !.pc = IF urls = << >> THEN "save" ELSE "invoke"]]
            /\ UNCHANGED scan_pc
  /\ UNCHANGED << scan_commands, earlier, report, fn, dir, summary, resource_groups, tasks, deque_tasks,
                  phase_tasks, invocations, writes >>

\* invoke_get_request: an attempt answered with a retryable status is repeated
InvokeBackoff(t) ==
  /\ th[t].pc = "invoke"
  /\ \E response \in Answers(th[t].urls[th[t].idx]) : Backoff(response, th[t].tries)
  /\ th' = [th EXCEPT ![t].tries = @ + 1]
  /\ UNCHANGED << scan_commands, earlier, report, fn, dir, summary, scan_pc, resource_groups, tasks,
                  deque_tasks, phase_tasks, invocations, writes, reads >>

\* as ErrorRaises, every answer other than 200 taken for one without error object
ErrorRaisesNon200(response) == response.status_code # 200

\* json.loads(response.content.decode('utf-8'))['error'] raises
ErrorRaises(response) == response.status_code # 200 /\ "error" \notin DOMAIN response.body

\* call_summary as it is when put into the summary
call_summary(url, response) ==
  IF response.status_code = 200
    THEN [request |-> url]
    ELSE [request |-> url, error |-> response.body.error]

\* as SummaryPut, the put repeated in the branch of a 200
SummaryPutInBranch(queue, url, response) ==
  IF response.status_code = 200
    THEN Append(Append(queue, call_summary(url, response)), call_summary(url, response))
    ELSE Append(queue, call_summary(url, response))

\* self.summary.put_nowait(call_summary)
SummaryPut(queue, url, response) == Append(queue, call_summary(url, response))

\* invoke_get_request returns the final answer (the last one after a giveup) and the
\* loop body of _get_results handles it
InvokeReturn(t) ==
  /\ th[t].pc = "invoke"
  /\ \E response \in Answers(th[t].urls[th[t].idx]) :
       LET url == th[t].urls[th[t].idx] IN
       /\ ~Backoff(response, th[t].tries)
       /\ invocations' = Append(invocations,
            [t |-> t, url |-> url, tries |-> th[t].tries + 1, response |-> response])
       /\ IF ErrorRaises(response)
            THEN /\ Raise(t)
                 /\ UNCHANGED summary
            ELSE /\ th' = [th EXCEPT ![t] =
                      [@ EXCEPT !.value = _concat_results(@, response),
                                !.idx = @ + 1, !.tries = 0,
                                !.pc = IF th[t].idx = Len(th[t].urls) THEN "save" ELSE "invoke"]]
                 /\ summary' = SummaryPut(summary, url, response)
                 /\ UNCHANGED scan_pc
  /\ UNCHANGED << scan_commands, earlier, report, fn, dir, resource_groups, tasks, deque_tasks, phase_tasks,
                  writes, reads >>

----------------------------------------------------------------------------
(* _save_result: tag the items, open(filepath, "w+"), json.dump, close *)

\* what open(filepath, "w+") leaves: the file exists and is empty
OpenedFile == [st |-> "empty", value |-> << >>, urls |-> << >>]

SaveOpen(t) ==
  /\ th[t].pc = "save"
  /\ \/ /\ dir' = [dir EXCEPT ![OutputFile(t)] = OpenedFile]
        /\ writes' = [writes EXCEPT ![OutputFile(t)] = @ + 1]
        /\ th' = [th EXCEPT ![t] = [@ EXCEPT !.value = _add_resource_group(@), !.pc = "dump"]]
        /\ UNCHANGED scan_pc
     \/ \* open raises (OSError)
        /\ Raise(t)
        /\ UNCHANGED << dir, writes >>
  /\ UNCHANGED << scan_commands, earlier, report, fn, summary, resource_groups, tasks, deque_tasks, phase_tasks,
                  invocations, reads >>

\* json.dump writes the text in pieces
SaveDump(t) ==
  /\ th[t].pc = "dump"
  /\ \/ /\ dir' = [dir EXCEPT ![OutputFile(t)] =
                     [st |-> "partial", value |-> th[t].value, urls |-> th[t].urls]]
        /\ th' = [th EXCEPT ![t].pc = "close"]
        /\ UNCHANGED scan_pc
     \/ \* a write raises (OSError): the file stays as it is
        /\ Raise(t)
        /\ UNCHANGED dir
  /\ UNCHANGED << scan_commands, earlier, report, fn, summary, resource_groups, tasks, deque_tasks, phase_tasks,
                  invocations, writes, reads >>

\* the last piece is written and the with block closes the file
SaveClose(t) ==
  /\ th[t].pc = "close"
  /\ \/ /\ dir' = [dir EXCEPT ![OutputFile(t)].st = "complete"]
        /\ th' = [th EXCEPT ![t] = [IdleThread EXCEPT !.pc = IF t = 0 THEN "saved" ELSE "done"]]
        /\ UNCHANGED scan_pc
     \/ /\ Raise(t)
        /\ UNCHANGED dir
  /\ UNCHANGED << scan_commands, earlier, report, fn, summary, resource_groups, tasks, deque_tasks, phase_tasks,
                  invocations, writes, reads >>

----------------------------------------------------------------------------
(* scan: after the listing, the two task lists *)

\* as ResourceGroupNames, another field of the items read
ResourceGroupNamesOtherField(d) ==
  LET values == get_dynamic_values_from_files(
                  [file |-> ResourceGroupsFile, path |-> << "loc" >>], d)
  IN  [k \in 1..Len(values) |-> values[k][1]]

\* get_dynamic_values_from_files('resource-groups.json|.value[].name', account_data_dir)
ResourceGroupNames(d) ==
  LET values == get_dynamic_values_from_files(
                  [file |-> ResourceGroupsFile, path |-> << "name" >>], d)
  IN  [k \in 1..Len(values) |-> values[k][1]]

\* as SelectCommands, each command put before the ones already chosen
RECURSIVE SelectCommandsPrepend(_, _, _)
SelectCommandsPrepend(cmds, i, dependable) ==
  IF i > Len(cmds) THEN << >>
  ELSE SelectCommandsPrepend(cmds, i + 1, dependable)
       \o (IF ("Parameters" \in DOMAIN cmds[i]) = dependable THEN << i >> ELSE << >>)

RECURSIVE SelectCommands(_, _, _)
\* the places i..Len of the command list whose command has (or has no) Parameters
SelectCommands(cmds, i, dependable) ==
  IF i > Len(cmds) THEN << >>
  ELSE (IF ("Parameters" \in DOMAIN cmds[i]) = dependable THEN << i >> ELSE << >>)
       \o SelectCommands(cmds, i + 1, dependable)

dependable_commands(cmds) == SelectCommands(cmds, 1, TRUE)
non_dependable_commands(cmds) == SelectCommands(cmds, 1, FALSE)

\* ThreadedFunctionData(self._execute_scan_commands, (command, ..., resource_groups), ...)
ThreadedFunctionData(scan_command, groups) ==
  [scan_command |-> scan_command, resource_groups |-> groups]

\* as DequeTasks, the two lists appended the other way round
DequeTasksSwapped(cmds) == << dependable_commands(cmds), non_dependable_commands(cmds) >>

\* deque_tasks.append(non_dependable_tasks); deque_tasks.append(dependable_tasks)
DequeTasks(cmds) == << non_dependable_commands(cmds), dependable_commands(cmds) >>

\* _get_resource_groups returns the names; scan builds the tasks and the deque
Schedule ==
  /\ scan_pc = "listing"
  /\ th[0].pc = "saved"
  /\ th' = [th EXCEPT ![0].pc = "done"]
  /\ resource_groups' = ResourceGroupNames(dir)
  /\ tasks' = [i \in Commands |-> ThreadedFunctionData(scan_commands[i], resource_groups')]
  /\ deque_tasks' = DequeTasks(scan_commands)
  /\ phase_tasks' = << >>
  /\ scan_pc' = "running"
  /\ UNCHANGED << scan_commands, earlier, report, fn, dir, summary, invocations, writes, reads >>

Range(list) == { list[i] : i \in 1..Len(list) }

Running == { t \in Commands : th[t].pc \notin Terminal \cup { "idle" } }

\* execute_parallel_functions_in_threads: the next list is taken from the deque
\* when every task of the list before it has ended
NextPhase ==
  /\ scan_pc = "running"
  /\ deque_tasks # << >>
  /\ \A t \in Range(phase_tasks) : th[t].pc \in Terminal
  /\ phase_tasks' = Head(deque_tasks)
  /\ deque_tasks' = Tail(deque_tasks)
  /\ UNCHANGED << scan_commands, earlier, report, fn, dir, summary, scan_pc, resource_groups, tasks, th,
                  invocations, writes, reads >>

\* as StartTask, the return after the warning left out
StartTaskNoReturn(t) ==
  /\ scan_pc = "running"
  /\ t \in Range(phase_tasks)
  /\ th[t].pc = "idle"
  /\ Cardinality(Running) < max_workers
  /\ th' = [th EXCEPT ![t].pc = "build"]
  /\ UNCHANGED << scan_commands, earlier, report, fn, dir, summary, scan_pc, resource_groups, tasks,
                  deque_tasks, phase_tasks, invocations, writes, reads >>

\* a worker starts _execute_scan_commands: a command whose file is there is skipped
StartTask(t) ==
  /\ scan_pc = "running"
  /\ t \in Range(phase_tasks)
  /\ th[t].pc = "idle"
  /\ Cardinality(Running) < max_workers
  /\ th' = [th EXCEPT ![t].pc = IF isfile(dir, OutputFile(t)) THEN "skipped" ELSE "build"]
  /\ UNCHANGED << scan_commands, earlier, report, fn, dir, summary, scan_pc, resource_groups, tasks,
                  deque_tasks, phase_tasks, invocations, writes, reads >>

\* as _print_summary, the failures left out of the APIs called
_print_summary_successes(queue) ==
  LET failures == { i \in 1..Len(queue) : "error" \in DOMAIN queue[i] }
  IN  [printed |-> TRUE, total |-> Len(queue) - Cardinality(failures),
       errors |-> Cardinality(failures)]

\* "Summary: {} APIs called. {} errors"
_print_summary(queue) ==
  LET failures == { i \in 1..Len(queue) : "error" \in DOMAIN queue[i] }
  IN  [printed |-> TRUE, total |-> Len(queue), errors |-> Cardinality(failures)]

\* execute_parallel_functions_in_threads returns; _print_summary and the return of scan
Return ==
  /\ scan_pc = "running"
  /\ deque_tasks = << >>
  /\ \A t \in Range(phase_tasks) : th[t].pc \in Terminal
  /\ scan_pc' = "returned"
  /\ report' = _print_summary(summary)
  /\ UNCHANGED << scan_commands, earlier, fn, dir, summary, resource_groups, tasks, deque_tasks,
                  phase_tasks, th, invocations, writes, reads >>

Next ==
  \/ \E t \in Threads : BuildUrls(t)
  \/ \E t \in Threads : InvokeBackoff(t)
  \/ \E t \in Threads : InvokeReturn(t)
  \/ \E t \in Threads : SaveOpen(t)
  \/ \E t \in Threads : SaveDump(t)
  \/ \E t \in Threads : SaveClose(t)
  \/ Schedule
  \/ NextPhase
  \/ \E t \in Commands : StartTask(t)
  \/ Return

Spec == Init /\ [][Next]_vars

\* the scan's thread and the pool's threads keep running, and a request is answered
\* or given up after MaxTries tries
FairSpec == Spec /\ WF_vars(Next)

----------------------------------------------------------------------------
(* The functions of the scanner applied to inputs of their own *)

\* how many resource groups are known, at most
MaxGroups == 2

\* how many items a result file holds, at most
MaxItems == 2

GroupName(i) == << "g1", "g2", "g3", "g4" >>[i]
Groups(n) == [i \in 1..n |-> GroupName(i)]

\* templates with the subscription already in them: no placeholder, the resource
\* group as a segment between two '/', as the last segment, before the query, and
\* templates with the placeholders of parameters
Templates ==
  { << Lit("s1"), Slash, Lit("x") >>,
    << Lit("s1"), Slash, Ph("resourceGroupName"), Slash, Lit("x") >>,
    << Lit("s1"), Slash, Ph("resourceGroupName") >>,
    << Lit("s1"), Slash, Ph("resourceGroupName"), Lit("?api-version=1") >>,
    << Lit("s1"), Slash, Ph("aName"), Slash, Ph("aLoc"), Slash, Ph("dName") >>,
    << Lit("s1"), Slash, Ph("resourceGroupName"), Slash, Ph("aName") >> }

ParamA1 == [Name |-> << "aName" >>, Value |-> [file |-> "a", path |-> << "name" >>]]
ParamA2 == [Name |-> << "aName", "aLoc" >>, Value |-> [file |-> "a", path |-> << "name", "loc" >>]]
ParamD1 == [Name |-> << "dName" >>, Value |-> [file |-> "d", path |-> << "name" >>]]
ParamE1 == [Name |-> << "aName" >>, Value |-> [file |-> "e", path |-> << "name" >>]]

ParameterLists ==
  { << >>, << ParamA1 >>, << ParamA2 >>, << ParamA1, ParamD1 >>, << ParamE1, ParamA2 >> }

StoredItem(i) ==
  [name |-> << "n1", "n2", "n3", "n4" >>[i], loc |-> << "l1", "l2", "l3", "l4" >>[i]]

\* a result file of n items, as _save_result leaves it
StoredFile(n) ==
  [st |-> "complete", value |-> [i \in 1..n |-> StoredItem(i)], urls |-> << >>]

\* every variable of the scan, while no scan runs
NoScan ==
  /\ scan_commands = << >>
  /\ summary = << >>
  /\ scan_pc = "off"
  /\ tasks = << >>
  /\ deque_tasks = << >>
  /\ phase_tasks = << >>
  /\ th = [t \in { 0 } |-> IdleThread]
  /\ invocations = << >>
  /\ writes = [f \in FileNames |-> 0]
  /\ reads = { }
  /\ earlier = { }
  /\ report = NoReport

\* a template, a parameter list, the known groups and a directory in which a.json
\* and d.json hold some items and e.json is absent
InitBuildUrls ==
  /\ \E n \in 0..MaxGroups : resource_groups = Groups(n)
  /\ \E na \in 0..MaxItems, nd \in 0..1 :
       dir = [f \in FileNames |->
                IF f = "a" THEN StoredFile(na)
                ELSE IF f = "d" THEN StoredFile(nd) ELSE AbsentFile]
  /\ \E _url \in Templates, parameters \in ParameterLists :
       fn = [op |-> "_build_urls", _url |-> _url, parameters |-> parameters,
             returned |-> FALSE, raised |-> FALSE, urls_with_params |-> << >>, out |-> << >>]

\* how many commands a command list holds, at most
MaxCommands == 3

\* a command that declares Parameters and lists none
CmdP0 ==
  [Name |-> "p",
   Request |-> << Lit("subscriptions"), Slash, Ph("subscriptionId"), Slash, Lit("p") >>,
   Parameters |-> << >>]

CommandPool == { CmdA, CmdB, CmdD, CmdE, CmdP0 }

\* the command lists of at most MaxCommands commands, no Name twice
CommandLists ==
  UNION { { cmds \in [1..n -> CommandPool] :
              \A i \in 1..n, j \in 1..n : i # j => cmds[i].Name # cmds[j].Name } :
          n \in 0..MaxCommands }

NoDirectory ==
  /\ dir = [f \in FileNames |-> AbsentFile]
  /\ resource_groups = << >>

InitPartition ==
  /\ NoDirectory
  /\ \E cmds \in CommandLists :
       fn = [op |-> "scan", cmds |-> cmds, returned |-> FALSE, out |-> << >>]

\* how many pages are merged into one result, at most
MaxBodies == 3

\* the bodies of 200 answers: pages with two, one and no items, and a lone object
Bodies == { ListBody, ObjectBody, [value |-> << Item2 >>], [value |-> << >>] }

BodyLists == UNION { [1..n -> Bodies] : n \in 0..MaxBodies }

InitConcatResults ==
  /\ NoDirectory
  /\ \E bodies \in BodyLists :
       fn = [op |-> "_concat_results", bodies |-> bodies, merged |-> 0, value |-> << >>]

InitFn ==
  /\ NoScan
  /\ \/ InitBuildUrls
     \/ InitPartition
     \/ InitConcatResults

ApplyBuildUrls ==
  /\ fn.op = "_build_urls"
  /\ ~fn.returned
  /\ fn' = [fn EXCEPT
              !.returned = TRUE,
              !.raised = BuildUrlsRaises(fn.parameters, dir),
              !.urls_with_params = UrlsWithParams(fn._url, fn.parameters, dir),
              !.out = _build_urls(fn._url, fn.parameters, dir, resource_groups)]
  /\ UNCHANGED << scan_commands, dir, summary, scan_pc, resource_groups, tasks, deque_tasks,
                  phase_tasks, th, invocations, writes, reads, earlier, report >>

\* scan: the commands are put on the two task lists and the lists on the deque
ApplyPartition ==
  /\ fn.op = "scan"
  /\ ~fn.returned
  /\ fn' = [fn EXCEPT !.returned = TRUE, !.out = DequeTasks(fn.cmds)]
  /\ UNCHANGED << scan_commands, dir, summary, scan_pc, resource_groups, tasks, deque_tasks,
                  phase_tasks, th, invocations, writes, reads, earlier, report >>

\* _get_results, one turn of its loop for a 200 answer: the next body is merged
ApplyConcatResults ==
  /\ fn.op = "_concat_results"
  /\ fn.merged < Len(fn.bodies)
  /\ fn' = [fn EXCEPT !.merged = @ + 1,
                      !.value = _concat_results(@, Response(200, fn.bodies[fn.merged + 1]))]
  /\ UNCHANGED << scan_commands, dir, summary, scan_pc, resource_groups, tasks, deque_tasks,
                  phase_tasks, th, invocations, writes, reads, earlier, report >>

NextFn ==
  \/ ApplyBuildUrls
  \/ ApplyPartition
  \/ ApplyConcatResults

SpecFn == InitFn /\ [][NextFn]_vars

----------------------------------------------------------------------------
(* Properties *)

Dependable(t) == "Parameters" \in DOMAIN scan_commands[t]

Started == scan_pc \in { "running", "returned" }

\* the items a 200 body adds to a result
ItemsOf(body) == IF "value" \in DOMAIN body THEN body.value ELSE << body >>

\* the items of the 200 answers thread t got, in the order of the log
RECURSIVE MergedItems(_, _)
MergedItems(log, t) ==
  IF log = << >> THEN << >>
  ELSE (IF Head(log).t = t /\ Head(log).response.status_code = 200
          THEN ItemsOf(Head(log).response.body) ELSE << >>)
       \o MergedItems(Tail(log), t)

Requested(url) == { i \in 1..Len(invocations) : invocations[i].url = url }
Recorded(url) == { i \in 1..Len(summary) : summary[i].request = url }
InvokedUrls == { invocations[i].url : i \in 1..Len(invocations) }

Writing(t) == th[t].pc \in { "dump", "close" }

\* C1: no task of a command with Parameters has started while a task of a command
\* without Parameters is not yet at its end (returned, skipped or failed and caught).
C1_IndependentBeforeDependent ==
  \A t \in Commands :
    (Dependable(t) /\ th[t].pc # "idle") =>
      \A s \in Commands : ~Dependable(s) => th[s].pc \in Terminal

C1_Witness ==
  \E t \in Commands, s \in Commands :
    /\ Dependable(t) /\ th[t].pc = "invoke"
    /\ ~Dependable(s) /\ th[s].pc = "done"

\* C2: a task that starts while its command's file exists ends at once as skipped:
\* the step requests nothing, puts nothing into the summary and leaves the directory
\* as it is; a skipped command never has a request in the log.
C2_IdempotentResume ==
  /\ [][\A t \in Commands :
          (/\ scan_pc = "running"
           /\ th[t].pc = "idle"
           /\ th'[t].pc # "idle"
           /\ dir[tasks[t].scan_command.Name].st # "absent")
          => /\ th'[t].pc = "skipped"
             /\ dir' = dir
             /\ summary' = summary
             /\ invocations' = invocations]_vars
  /\ [](\A t \in Commands :
          th[t].pc = "skipped" =>
            /\ \A i \in 1..Len(invocations) : invocations[i].t # t
            /\ dir[scan_commands[t].Name].st = "complete")

C2_Witness ==
  /\ Started
  /\ \E t \in Commands :
       /\ th[t].pc = "skipped"
       /\ scan_commands[t].Name # ResourceGroupsFile
       /\ dir[scan_commands[t].Name] = EarlierFile
  /\ \E i \in 1..Len(invocations) : invocations[i].t # 0

\* C3: a command whose pipeline raised (its task ended "failed", the exception
\* caught) has no <name>.json, and no other task is kept from its own end.
C3_FailedLeavesNoFile ==
  \A t \in Commands :
    th[t].pc = "failed" => dir[scan_commands[t].Name].st = "absent"

\* C4: every request that got its final answer has exactly one entry in the summary.
C4_OneSummaryEntryPerInvocation ==
  \A url \in InvokedUrls : Cardinality(Recorded(url)) = Cardinality(Requested(url))

\* C5: a final answer that is not 200 does not end the command: the step in which a
\* command's task gets it puts the entry with the body's error object and the task
\* goes on with its next URL or with saving.
C5_Non200DoesNotAbort ==
  [][(/\ Len(invocations') = Len(invocations) + 1
      /\ invocations'[Len(invocations')].t \in Commands
      /\ invocations'[Len(invocations')].response.status_code # 200)
     => LET e == invocations'[Len(invocations')] IN
        /\ th'[e.t].pc \in { "invoke", "save" }
        /\ Len(summary') = Len(summary) + 1
        /\ summary'[Len(summary')] = [request |-> e.url, error |-> e.response.body.error]]_vars

\* C6: no exception leaves scan(): scan never ends by raising.
C6_ScanNeverRaises == scan_pc # "raised"

\* C7: a request that succeeds (at the first attempt or after failed attempts) has one
\* entry without error in the summary per such request, and while a thread is in
\* _get_results its value list is the items of its 200 answers, in order.
C7_RetryThenSuccessRecordedOnce ==
  /\ \A url \in InvokedUrls :
       Cardinality({ i \in Recorded(url) : "error" \notin DOMAIN summary[i] })
         = Cardinality({ i \in Requested(url) : invocations[i].response.status_code = 200 })
  /\ \A t \in Threads :
       th[t].pc \in { "invoke", "save" } => th[t].value = MergedItems(invocations, t)

C7_Witness ==
  \E i \in 1..Len(invocations) :
    /\ invocations[i].tries = MaxTries
    /\ invocations[i].tries > 1
    /\ invocations[i].response.status_code = 200
    /\ Cardinality(Recorded(invocations[i].url)) = 1
    /\ th[invocations[i].t].pc = "save"
    /\ th[invocations[i].t].value # << >>

\* C8: every file is opened for writing at most once in a scan, and no two threads
\* are writing the same file at the same time.
C8_OneWriterPerFile ==
  /\ \A f \in FileNames : writes[f] <= 1
  /\ \A t \in Threads, u \in Threads :
       (Writing(t) /\ Writing(u) /\ t # u) => OutputFile(t) # OutputFile(u)

C8_Witness ==
  /\ \E t \in Commands, u \in Commands : t # u /\ Writing(t) /\ Writing(u)
  /\ writes[ResourceGroupsFile] = 1

\* C9: the file a parameter is read from is absent, empty or written to its end when
\* it is read, never written in part.
C9_NoPartialRead ==
  \A r \in reads : r.st \in { "absent", "empty", "complete" }

\* the names of the items of resource-groups.json
ListedGroups ==
  [k \in 1..Len(dir[ResourceGroupsFile].value) |-> dir[ResourceGroupsFile].value[k].name]

\* C10: when a command's task has started, the listing was the first request of the
\* scan, resource-groups.json is written to its end, every task holds the names of
\* the items of that file as its resource groups, and a command without Parameters
\* whose URL has the resource-group segment requests one URL per such name.
C10_ResourceGroupsFirst ==
  \A t \in Commands :
    th[t].pc # "idle" =>
      /\ th[0].pc = "done"
      /\ invocations # << >>
      /\ invocations[1].t = 0 /\ invocations[1].url = ResourceGroupsUrl
      /\ \A i \in 2..Len(invocations) : invocations[i].t # 0
      /\ dir[ResourceGroupsFile].st = "complete"
      /\ \A s \in Commands : tasks[s].resource_groups = ListedGroups
      /\ (/\ th[t].pc = "invoke"
          /\ ~Dependable(t)
          /\ HasResourceGroupSegment(base_url(scan_commands[t])))
         => th[t].urls =
              [g \in 1..Len(ListedGroups) |->
                 Replace(base_url(scan_commands[t]), "resourceGroupName", ListedGroups[g])]

C10_Witness ==
  /\ Started
  /\ \E t \in Commands :
       /\ th[t].pc = "invoke"
       /\ HasResourceGroupSegment(base_url(scan_commands[t]))
       /\ Len(th[t].urls) = 2
       /\ tasks[t].resource_groups = << "n1", "n2" >>

\* the template holds the resource-group placeholder somewhere
HasResourceGroupPlaceholder(_url) ==
  \E i \in 1..Len(_url) : _url[i] = Ph("resourceGroupName")

\* C11: with no parameters, _build_urls returns the template alone when it holds no
\* resource-group placeholder, and otherwise one URL per known group, in order, with
\* the placeholder replaced by the group's name (none when no group is known).
C11_NoParametersUrls ==
  (fn.op = "_build_urls" /\ fn.returned /\ fn.parameters = << >>) =>
    IF HasResourceGroupPlaceholder(fn._url)
      THEN /\ Len(fn.out) = Len(resource_groups)
           /\ \A g \in 1..Len(resource_groups) :
                fn.out[g] = Replace(fn._url, "resourceGroupName", resource_groups[g])
      ELSE fn.out = << fn._url >>

\* how many tuples the value source of a parameter yields: one per item of its file
TuplesOf(parameter) ==
  IF dir[parameter.Value.file].st = "complete"
    THEN Len(dir[parameter.Value.file].value) ELSE 0

\* how many tuples the first n parameters yield together
RECURSIVE TuplesBefore(_, _)
TuplesBefore(parameters, n) ==
  IF n = 0 THEN 0 ELSE TuplesBefore(parameters, n - 1) + TuplesOf(parameters[n])

\* the template with each name of the parameter replaced by the value of item k
\* at the same place of the path
Substituted(_url, parameter, k) ==
  [i \in 1..Len(_url) |->
     IF \E j \in 1..Len(parameter.Name) : _url[i] = Ph(parameter.Name[j])
       THEN LET j == CHOOSE j \in 1..Len(parameter.Name) : _url[i] = Ph(parameter.Name[j])
            IN  Lit(dir[parameter.Value.file].value[k][parameter.Value.path[j]])
       ELSE _url[i]]

\* C12: before the expansion per resource group, each parameter adds one URL per
\* tuple of its value source, in the order of the tuples and after the URLs of the
\* parameters before it, with each of its names replaced by the value at the same
\* place; a parameter whose file is absent or holds no item adds none, and the call
\* does not raise.
C12_OneUrlPerTuple ==
  (fn.op = "_build_urls" /\ fn.returned /\ fn.parameters # << >>) =>
    /\ ~fn.raised
    /\ Len(fn.urls_with_params) = TuplesBefore(fn.parameters, Len(fn.parameters))
    /\ \A p \in 1..Len(fn.parameters) :
         \A k \in 1..TuplesOf(fn.parameters[p]) :
           fn.urls_with_params[TuplesBefore(fn.parameters, p - 1) + k]
             = Substituted(fn._url, fn.parameters[p], k)

C12_Witness ==
  /\ fn.op = "_build_urls" /\ fn.returned
  /\ fn.parameters = << ParamE1, ParamA2 >>
  /\ fn._url = << Lit("s1"), Slash, Ph("aName"), Slash, Ph("aLoc"), Slash, Ph("dName") >>
  /\ fn.urls_with_params =
       << << Lit("s1"), Slash, Lit("n1"), Slash, Lit("l1"), Slash, Ph("dName") >>,
          << Lit("s1"), Slash, Lit("n2"), Slash, Lit("l2"), Slash, Ph("dName") >> >>

Increasing(list) == \A i \in 1..Len(list), j \in 1..Len(list) : i < j => list[i] < list[j]

\* C13 as claimed: a command is on the second task list exactly if its list of
\* parameters is not empty.
C13_DependentIffParametersNonEmpty ==
  (fn.op = "scan" /\ fn.returned) =>
    \A i \in 1..Len(fn.cmds) :
      i \in Range(fn.out[2]) <=> ParametersOf(fn.cmds[i]) # << >>

\* C13: a command is on the second task list exactly if it declares Parameters (an
\* empty list too) and on the first otherwise; each list keeps the order of the
\* command list, and every command is on exactly one list, once.
C13_PartitionByParametersKey ==
  (fn.op = "scan" /\ fn.returned) =>
    /\ Len(fn.out) = 2
    /\ \A i \in 1..Len(fn.cmds) :
         /\ i \in Range(fn.out[2]) <=> "Parameters" \in DOMAIN fn.cmds[i]
         /\ i \in Range(fn.out[1]) <=> "Parameters" \notin DOMAIN fn.cmds[i]
    /\ Range(fn.out[1]) \cup Range(fn.out[2]) = 1..Len(fn.cmds)
    /\ Increasing(fn.out[1]) /\ Increasing(fn.out[2])

C13_Witness ==
  /\ fn.op = "scan" /\ fn.returned
  /\ fn.cmds = << CmdD, CmdA, CmdP0 >>
  /\ fn.out = << << 2 >>, << 1, 3 >> >>

\* how many items the first n bodies hold together
RECURSIVE ItemsBefore(_, _)
ItemsBefore(bodies, n) ==
  IF n = 0 THEN 0 ELSE ItemsBefore(bodies, n - 1) + Len(ItemsOf(bodies[n]))

\* C14: after any number of 200 bodies were merged, the value list is the
\* concatenation, in merge order, of each body's value items, or of the body itself
\* where it has no value array; a merge adds at the end and leaves the earlier
\* items where they are, twice where they came twice.
C14_MergeAppendsInOrder ==
  /\ (fn.op = "_concat_results") =>
       /\ Len(fn.value) = ItemsBefore(fn.bodies, fn.merged)
       /\ \A n \in 1..fn.merged :
            \A k \in 1..Len(ItemsOf(fn.bodies[n])) :
              fn.value[ItemsBefore(fn.bodies, n - 1) + k] = ItemsOf(fn.bodies[n])[k]
  /\ [][(fn.op = "_concat_results") =>
          /\ Len(fn'.value) >= Len(fn.value)
          /\ SubSeq(fn'.value, 1, Len(fn.value)) = fn.value]_vars

C14_Witness ==
  /\ fn.op = "_concat_results"
  /\ fn.bodies = << ObjectBody, ListBody, ListBody >>
  /\ fn.merged = 3
  /\ fn.value = << Item3, Item1, Item2, Item1, Item2 >>

\* the thread that writes a file: the scan's own for the listing, a command's task
\* for the file of its name
WriterOf(f) ==
  IF f = ResourceGroupsFile THEN 0
  ELSE CHOOSE t \in Commands : scan_commands[t].Name = f

\* the places of an id where a 'resourceGroups/' marker stands
Markers(item_id) ==
  { i \in 1..(Len(item_id) - 1) : item_id[i] = Lit("resourceGroups") /\ item_id[i + 1] = Slash }

HasSegment(item) == "id" \in DOMAIN item /\ Markers(item.id) # { }

\* the text between the first marker of an id and the next '/', or the end
SegmentOf(item_id) ==
  LET i == CHOOSE m \in Markers(item_id) : \A n \in Markers(item_id) : m <= n
      ends == { j \in (i + 2)..(Len(item_id) + 1) : j = Len(item_id) + 1 \/ item_id[j] = Slash }
      end == CHOOSE j \in ends : \A e \in ends : j <= e
  IN  SubSeq(item_id, i + 2, end - 1)

\* C15: every item of a file written by this scan whose id holds a resource-group
\* segment carries a resourceGroup field with the text between the marker and the
\* next '/', its other fields as answered; an item with no id, or with an id that
\* holds no such segment, is in the file as it was answered.
C15_PersistedItemsTagged ==
  \A f \in FileNames :
    (writes[f] > 0 /\ dir[f].st \in { "partial", "complete" }) =>
      LET raw == MergedItems(invocations, WriterOf(f))
      IN  /\ Len(dir[f].value) = Len(raw)
          /\ \A k \in 1..Len(raw) :
               IF HasSegment(raw[k])
                 THEN /\ DOMAIN dir[f].value[k] = DOMAIN raw[k] \cup { "resourceGroup" }
                      /\ dir[f].value[k].resourceGroup = SegmentOf(raw[k].id)
                      /\ \A field \in DOMAIN raw[k] : dir[f].value[k][field] = raw[k][field]
                 ELSE dir[f].value[k] = raw[k]

C15_Witness ==
  \E f \in FileNames, g \in FileNames :
    /\ writes[f] > 0 /\ dir[f].st = "complete"
    /\ Len(dir[f].value) = 2
    /\ dir[f].value[1].resourceGroup = << Lit("n1") >>
    /\ dir[f].value[2] = Item2
    /\ writes[g] > 0 /\ dir[g].st = "complete"
    /\ dir[g].value = << Item3 >>

\* the calls whose outcome _get_results put into the summary, and those of them
\* that ended in an error
Outcomes == { i \in 1..Len(invocations) : ~ErrorRaises(invocations[i].response) }
ErrorOutcomes == { i \in Outcomes : invocations[i].response.status_code # 200 }

\* C16: the summary is read only when both task lists are drained, and then the
\* total it reports is the number of outcomes the listing and all workers put into
\* it, the error count the number of those that carry an error; nothing is put
\* after it was read.
C16_SummaryCountsAllOutcomes ==
  /\ ~report.printed => report = NoReport
  /\ report.printed =>
       /\ deque_tasks = << >>
       /\ \A t \in Commands : th[t].pc \in Terminal
       /\ report.total = Cardinality(Outcomes)
       /\ report.errors = Cardinality(ErrorOutcomes)
       /\ Len(summary) = report.total

C16_Witness ==
  /\ report.printed
  /\ report.errors >= 1
  /\ report.total >= report.errors + 2
  /\ Len(invocations) > report.total
  /\ \E i \in Outcomes : invocations[i].t # 0 /\ Dependable(invocations[i].t)

\* a request got a final answer other than 200
SomeNon200 == \E i \in 1..Len(invocations) : invocations[i].response.status_code # 200

\* thread t ended in an exception after all its requests were answered 200: the
\* write of its file raised
SaveRaised(t) ==
  /\ th[t].pc = "failed"
  /\ \E i \in 1..Len(invocations) : invocations[i].t = t
  /\ \A i \in 1..Len(invocations) :
       invocations[i].t = t => invocations[i].response.status_code = 200

\* the scan has returned, the listing and every command have their file, those of
\* the commands with Parameters hold the URLs their source files resolve to, and
\* the summary reports no error
ScanComplete ==
  /\ scan_pc = "returned"
  /\ dir[ResourceGroupsFile].st = "complete"
  /\ \A t \in Commands :
       /\ dir[scan_commands[t].Name].st = "complete"
       /\ Dependable(t) =>
            /\ dir[scan_commands[t].Name].urls # << >>
            /\ dir[scan_commands[t].Name].urls =
                 _build_urls(base_url(scan_commands[t]), ParametersOf(scan_commands[t]),
                             dir, resource_groups)
  /\ report.printed
  /\ report.errors = 0

\* C17: a scan that starts with an empty output directory, gets 200 as the final
\* answer of every request and can write its files eventually returns with the
\* file of the listing and one file for every command, the commands with
\* Parameters resolved from the files of the others, and a summary of 0 errors.
C17_EndToEnd ==
  <>(\/ earlier # { }
     \/ SomeNon200
     \/ \E t \in Threads : SaveRaised(t)
     \/ ScanComplete)

C17_Witness ==
  /\ earlier = { }
  /\ ~SomeNon200
  /\ ScanComplete
  /\ \E t \in Commands :
       /\ Dependable(t)
       /\ Len(dir[scan_commands[t].Name].urls) = 2
       /\ Len(dir[scan_commands[t].Name].value) >= 2
  /\ report.total >= 4

\* what thread t read of its source files held no item: the file was not there, or
\* it was complete and its value list empty
ReadNothing(t) ==
  /\ \E r \in reads : r.t = t
  /\ \A r \in reads :
       r.t = t => \/ r.st = "absent"
                  \/ r.st = "complete" /\ dir[r.file].value = << >>

\* the command of thread t resolves to no URL: its parameters yield no value, or
\* its template holds the resource-group segment and no group is known
ResolvesToNothing(t) ==
  \/ Dependable(t) /\ ReadNothing(t)
  \/ /\ ~Dependable(t)
     /\ HasResourceGroupSegment(base_url(scan_commands[t]))
     /\ resource_groups = << >>

\* C18: a command that resolves to no URL and ends normally has invoked nothing and
\* has written <name>.json with an empty value list and an empty urls list; a
\* command that finds such a file of an earlier scan is skipped, invokes nothing and
\* leaves the file as it is, whatever its source files hold by now.
C18_ZeroUrlsWritesEmptyResult ==
  \A t \in Commands :
    /\ (th[t].pc = "done" /\ ResolvesToNothing(t)) =>
         /\ \A i \in 1..Len(invocations) : invocations[i].t # t
         /\ dir[scan_commands[t].Name] = EmptyResultFile
         /\ writes[scan_commands[t].Name] = 1
    /\ (scan_commands[t].Name \in earlier
          /\ EarlierContent(scan_commands[t].Name) = EmptyResultFile) =>
         /\ \A i \in 1..Len(invocations) : invocations[i].t # t
         /\ dir[scan_commands[t].Name] = EmptyResultFile
         /\ writes[scan_commands[t].Name] = 0
         /\ th[t].pc \in { "idle", "skipped" }

C18_Witness ==
  \E t \in Commands, u \in Commands :
    /\ scan_commands[t].Name = "d" /\ "d" \in earlier
    /\ th[t].pc = "skipped"
    /\ dir["a"].st = "complete" /\ dir["a"].value # << >>
    /\ ParametersOf(scan_commands[t])[1].Value.file = "a"
    /\ th[u].pc = "done" /\ ResolvesToNothing(u)
    /\ dir[scan_commands[u].Name] = EmptyResultFile

\* the URLs thread t requested, in the order of the log
RECURSIVE LoggedUrls(_, _)
LoggedUrls(log, t) ==
  IF log = << >> THEN << >>
  ELSE (IF Head(log).t = t THEN << Head(log).url >> ELSE << >>) \o LoggedUrls(Tail(log), t)

\* C19: a final answer other than 200 that holds an error object adds no item and
\* lets the command go on; the <name>.json of a command that ended normally lists
\* every URL it requested, the failed ones too, in order, and holds the items of
\* the 200 answers only, in the order of the URLs; a command that finds its file
\* of an earlier scan is skipped and requests none of its URLs.
C19_FailedUrlsKeptInFile ==
  /\ [][(/\ Len(invocations') = Len(invocations) + 1
         /\ invocations'[Len(invocations')].t \in Commands
         /\ invocations'[Len(invocations')].response.status_code # 200
         /\ "error" \in DOMAIN invocations'[Len(invocations')].response.body)
        => LET t == invocations'[Len(invocations')].t IN
           /\ th'[t].pc \in { "invoke", "save" }
           /\ th'[t].value = th[t].value
           /\ th'[t].urls = th[t].urls]_vars
  /\ [](\A t \in Commands :
          /\ th[t].pc = "done" =>
               LET file == dir[scan_commands[t].Name]
                   raw == MergedItems(invocations, t)
               IN  /\ file.st = "complete"
                   /\ file.urls = LoggedUrls(invocations, t)
                   /\ Len(file.value) = Len(raw)
                   /\ \A k \in 1..Len(raw) :
                        \A field \in DOMAIN raw[k] : file.value[k][field] = raw[k][field]
          /\ (scan_commands[t].Name \in earlier /\ th[t].pc # "idle") =>
               /\ th[t].pc = "skipped"
               /\ LoggedUrls(invocations, t) = << >>)

C19_Witness ==
  \E t \in Commands :
    /\ th[t].pc = "done"
    /\ Len(dir[scan_commands[t].Name].urls) = 2
    /\ \E i \in 1..Len(invocations), j \in 1..Len(invocations) :
         /\ i < j
         /\ invocations[i].t = t /\ invocations[j].t = t
         /\ invocations[i].response.status_code = 404
         /\ invocations[j].response.status_code = 200
         /\ dir[scan_commands[t].Name].value # << >>
         /\ Len(dir[scan_commands[t].Name].value) = Len(ItemsOf(invocations[j].response.body))

\* C20: the listing is requested whether or not resource-groups.json is there: once
\* the scan's own thread is past its request the listing URL was requested exactly
\* once, by that thread, and once it has saved, resource-groups.json was opened for
\* writing once and holds the result of this scan; a command named resource-groups
\* that was started is skipped and requests nothing.
C20_ListingExemptFromResume ==
  /\ th[0].pc # "skipped"
  /\ Cardinality({ i \in 1..Len(invocations) : invocations[i].t = 0 }) <= 1
  /\ th[0].pc \notin { "build", "invoke" } =>
       /\ Cardinality(Requested(ResourceGroupsUrl)) = 1
       /\ \A i \in Requested(ResourceGroupsUrl) : invocations[i].t = 0
  /\ th[0].pc \in { "saved", "done" } =>
       /\ writes[ResourceGroupsFile] = 1
       /\ dir[ResourceGroupsFile].st = "complete"
       /\ dir[ResourceGroupsFile].urls = << ResourceGroupsUrl >>
       /\ Len(dir[ResourceGroupsFile].value) = Len(MergedItems(invocations, 0))
  /\ \A t \in Commands :
       (scan_commands[t].Name = ResourceGroupsFile /\ th[t].pc # "idle") =>
         /\ th[t].pc = "skipped"
         /\ \A i \in 1..Len(invocations) : invocations[i].t # t

C20_Witness ==
  /\ ResourceGroupsFile \in earlier
  /\ th[0].pc = "done"
  /\ dir[ResourceGroupsFile] # EarlierFile
  /\ Len(dir[ResourceGroupsFile].value) = 2
  /\ \E t \in Commands :
       /\ scan_commands[t].Name = ResourceGroupsFile
       /\ th[t].pc = "skipped"
  /\ \E i \in 1..Len(invocations) : invocations[i].t \in Commands

====
